---- MODULE Spec2Model ----
(***************************************************************************)
(* Model of app.py: a Streamlit script that draws three GeoJSON point      *)
(* layers and a "radio zone" circle on a folium map, and moves the zone    *)
(* centre to the place the user clicks.                                    *)
(*                                                                         *)
(* Streamlit runs the whole script from top to bottom each time a widget   *)
(* of the page changes (slider, button, the st_folium component).  One     *)
(* such run is a render pass.  pc is the position of the script inside a   *)
(* pass; between passes the script waits for the user (pc = "idle"), or    *)
(* it has stopped on an uncaught exception (pc = "crashed").               *)
(*                                                                         *)
(* Geographic coordinates of clicks and of the centre are integers in      *)
(* units of 1e-7 degree, so that rounding to 6 and to 5 fractional digits  *)
(* is a real operation.  GeoJSON documents are records carrying, for each  *)
(* JSON value the code looks at, its JSON kind and its content.            *)
(***************************************************************************)
EXTENDS Integers, Sequences, FiniteSets, TLC

VARIABLES
    pc,              \* position of the script run
    session_state,   \* st.session_state: a function whose DOMAIN is the set of keys
    slider,          \* widget state of the radius slider
    button,          \* st.button(...): TRUE during the run its press triggers
    last_clicked,    \* value "last_clicked" held by the st_folium component
    files,           \* content of the data files, per layer of LAYER_SPECS
    icon_exists,     \* ICON_PATH.exists()
    radius_km,       \* script variable radius_km
    lighthouse_icon, \* script variable lighthouse_icon (TRUE: a CustomIcon, FALSE: None)
    m,               \* script variable m: the folium map and the children added to it
    li,              \* index in LAYER_SPECS of the layer the for loop is at
    warnings,        \* st.warning messages of the run
    out,             \* script variable out: what st_folium returned last
    status,          \* the "Zentrum:" / "Radius:" lines written in col2
    rerun_requested  \* TRUE when the script has asked Streamlit for another run

vars == <<pc, session_state, slider, button, last_clicked, files, icon_exists,
          radius_km, lighthouse_icon, m, li, warnings, out, status, rerun_requested>>

-----------------------------------------------------------------------------
(* Configuration / defaults *)

\* Python's None, for values that are coordinate pairs otherwise
None == <<>>

\* DEFAULT_CENTER = (52.52, 13.405), in units of 1e-7 degree
DEFAULT_CENTER == <<525200000, 134050000>>

DEFAULT_ZOOM == 11

SLIDER_MIN == 1

SLIDER_MAX == 20

SLIDER_VALUE == 3

\* LAYER_SPECS: (layer name, path) in order
LAYER_SPECS ==
    << [layer_name |-> "Feuerwachen",   path |-> "data/feuerwehr.geojson"],
       [layer_name |-> "Polizeiwachen", path |-> "data/polizei.geojson"],
       [layer_name |-> "Schulen",       path |-> "data/schulen.geojson"] >>

Paths == { LAYER_SPECS[i].path : i \in 1..Len(LAYER_SPECS) }

-----------------------------------------------------------------------------
(* JSON values as the script sees them.  Every record names the JSON kind  *)
(* of the value ("absent" when the key is not in the enclosing object) and *)
(* its content.  A Python dict of strings is a function on its keys.       *)

EmptyDict == [k \in {} |-> ""]

AbsentCoordinates == [kind |-> "absent", items |-> <<>>]

Array(items) == [kind |-> "array", items |-> items]

AbsentGeometry == [kind |-> "absent", type |-> "", coordinates |-> AbsentCoordinates]

NullGeometry == [kind |-> "null", type |-> "", coordinates |-> AbsentCoordinates]

Geometry(type, coordinates) ==
    [kind |-> "object", type |-> type, coordinates |-> coordinates]

AbsentProperties == [kind |-> "absent", dict |-> EmptyDict]

NullProperties == [kind |-> "null", dict |-> EmptyDict]

Properties(dict) == [kind |-> "object", dict |-> dict]

Feature(geometry, properties) == [geometry |-> geometry, properties |-> properties]

AbsentFeatures == [kind |-> "absent", items |-> <<>>]

NullFeatures == [kind |-> "null", items |-> <<>>]

FeatureCollection(features) == [kind |-> "object", features |-> features]

NullDocument == [kind |-> "null", features |-> AbsentFeatures]

ArrayDocument == [kind |-> "array", features |-> AbsentFeatures]

\* a file of the data directory: missing, not parseable as JSON, or a JSON document
NotFoundFile == [exists |-> FALSE, parses |-> FALSE, json |-> NullDocument]

InvalidJsonFile == [exists |-> TRUE, parses |-> FALSE, json |-> NullDocument]

JsonFile(json) == [exists |-> TRUE, parses |-> TRUE, json |-> json]

-----------------------------------------------------------------------------
(* Helper functions of the script *)

\* load_geojson(path): (geo, err); err = "" stands for None
load_geojson(path) ==
    IF ~files[path].exists
    THEN [geo |-> NullDocument, err |-> "Datei nicht gefunden"]
    ELSE IF ~files[path].parses
         THEN [geo |-> NullDocument, err |-> "Fehler beim Laden"]
         ELSE [geo |-> files[path].json, err |-> ""]

\* props.get(key): the value, or a falsy value ("" for None) when the key is absent
DictGet(dict, key) == IF key \in DOMAIN dict THEN dict[key] ELSE ""

\* Python's  a or b  on strings
Or(a, b) == IF a # "" THEN a ELSE b

\* feat.get("properties", {}) or {}
PropsOf(feat) ==
    IF feat.properties.kind = "object" THEN feat.properties.dict ELSE EmptyDict

\* lines 70-79: the marker of a Point feature inside add_geojson_markers
IconMarker(coords, props, layer_name) ==
    LET lon == coords[1]
        lat == coords[2]
        label == Or(DictGet(props, "name"),
                    Or(DictGet(props, "titel"), Or(DictGet(props, "title"), "")))
    IN  [location |-> <<lat, lon>>, icon |-> TRUE, popup |-> <<layer_name, label>>]

\* FallbackMarker with latitude and longitude taken in GeoJSON order, the slip
\* C5 has to tell from the code
FallbackMarker_Transposed(coords, props, layer_name) ==
    LET lon == coords[2]
        lat == coords[1]
        label == Or(DictGet(props, "name"), "")
    IN  [location |-> <<lat, lon>>, icon |-> FALSE, popup |-> <<layer_name, label>>]

\* lines 123-128: the marker of a Point feature in the loop without CustomIcon
FallbackMarker(coords, props, layer_name) ==
    LET lon == coords[1]
        lat == coords[2]
        label == Or(DictGet(props, "name"), "")
    IN  [location |-> <<lat, lon>>, icon |-> FALSE, popup |-> <<layer_name, label>>]

\* lines 60-69 and their copy, lines 116-122: what the loop does with one entry of
\* features before it builds the marker: "raise" (an uncaught exception),
\* "continue" (entry skipped) or "marker"
FeatureOutcome(feat) ==
    IF feat.geometry.kind = "absent" THEN "continue"         \* {}.get("type") is None
    ELSE IF feat.geometry.kind # "object" THEN "raise"       \* geom.get on None
    ELSE IF feat.geometry.type # "Point" THEN "continue"
    ELSE IF feat.geometry.coordinates.kind \in {"absent", "null"} THEN "continue"
    ELSE IF feat.geometry.coordinates.kind = "number" THEN "raise"   \* len() of a number
    ELSE IF Len(feat.geometry.coordinates.items) < 2 THEN "continue"
    ELSE "marker"

\* lines 59-79: the for loop of add_geojson_markers over a list of features
RECURSIVE IconLoop(_, _)
IconLoop(features, layer_name) ==
    IF features = <<>> THEN [raised |-> FALSE, markers |-> <<>>]
    ELSE LET feat == Head(features)
             outcome == FeatureOutcome(feat)
             rest == IconLoop(Tail(features), layer_name)
         IN  IF outcome = "raise" \/ rest.raised
             THEN [raised |-> TRUE, markers |-> <<>>]
             ELSE IF outcome = "continue" THEN rest
             ELSE [raised |-> FALSE,
                   markers |-> <<IconMarker(feat.geometry.coordinates.items,
                                            PropsOf(feat), layer_name)>>
                               \o rest.markers]

\* lines 115-128: the for loop of the branch without CustomIcon
RECURSIVE FallbackLoop(_, _)
FallbackLoop(features, layer_name) ==
    IF features = <<>> THEN [raised |-> FALSE, markers |-> <<>>]
    ELSE LET feat == Head(features)
             outcome == FeatureOutcome(feat)
             rest == FallbackLoop(Tail(features), layer_name)
         IN  IF outcome = "raise" \/ rest.raised
             THEN [raised |-> TRUE, markers |-> <<>>]
             ELSE IF outcome = "continue" THEN rest
             ELSE [raised |-> FALSE,
                   markers |-> <<FallbackMarker(feat.geometry.coordinates.items,
                                                PropsOf(feat), layer_name)>>
                               \o rest.markers]

\* a child added to the map with add_to(m)
Child(kind, name, location, radius, markers) ==
    [kind |-> kind, name |-> name, location |-> location, radius |-> radius,
     markers |-> markers]

\* geojson_obj.get("features", []) followed by  for feat in features: the list the
\* loop walks; raised when geojson_obj is no dict or features cannot be iterated
FeaturesOf(geojson_obj) ==
    IF geojson_obj.kind # "object" THEN [raised |-> TRUE, items |-> <<>>]
    ELSE IF geojson_obj.features.kind = "absent" THEN [raised |-> FALSE, items |-> <<>>]
    ELSE IF geojson_obj.features.kind # "array" THEN [raised |-> TRUE, items |-> <<>>]
    ELSE [raised |-> FALSE, items |-> geojson_obj.features.items]

\* add_geojson_markers(m, geojson_obj, layer_name, icon): the map with the layer
\* added, or raised
add_geojson_markers(map, geojson_obj, layer_name) ==
    LET features == FeaturesOf(geojson_obj)
        loop == IconLoop(features.items, layer_name)
    IN  IF features.raised \/ loop.raised
        THEN [raised |-> TRUE, map |-> map]
        ELSE [raised |-> FALSE,
              map |-> [map EXCEPT !.children =
                          Append(@, Child("FeatureGroup", layer_name, None, 0,
                                          loop.markers))]]

\* lines 114-129: the same without CustomIcon
FallbackLayer(map, geo, layer_name) ==
    LET features == FeaturesOf(geo)
        loop == FallbackLoop(features.items, layer_name)
    IN  IF features.raised \/ loop.raised
        THEN [raised |-> TRUE, map |-> map]
        ELSE [raised |-> FALSE,
              map |-> [map EXCEPT !.children =
                          Append(@, Child("FeatureGroup", layer_name, None, 0,
                                          loop.markers))]]

-----------------------------------------------------------------------------
(* Inputs *)

NumClicks == 3

MaxFeatures == 2

\* the k-th place the user may click: 52.5, 52.5000003, 52.501, 52.5010003, ...
\* (none ends in a 5 where rounding to 5 or 6 digits would hit a tie)
ClickAt(k) == <<525000000 + 3 * ((k - 1) % 2) + 10000 * ((k - 1) \div 2), 134000000>>

Clicks == { ClickAt(k) : k \in 1..NumClicks }

\* positions of the slider the model moves it to
SliderPositions == {SLIDER_MIN, SLIDER_VALUE, SLIDER_MAX}

\* GeoJSON of the spec's end-to-end scenario plus a polygon; coordinates in 1e-2 degree
SchoolsDocument ==
    FeatureCollection(Array(<<
        Feature(Geometry("Point", Array(<<1340, 5250>>)),
                Properties([name |-> "Schule A"])),
        Feature(Geometry("Polygon", Array(<<1300, 5200>>)), Properties([name |-> "Bezirk"])),
        Feature(Geometry("Point", Array(<<1341, 5252>>)), Properties(EmptyDict)) >>))

SampleFiles ==
    { NotFoundFile, InvalidJsonFile, JsonFile(NullDocument),
      JsonFile(FeatureCollection(NullFeatures)), JsonFile(SchoolsDocument) }

CoordinateValues ==
    { AbsentCoordinates, [kind |-> "null", items |-> <<>>],
      [kind |-> "number", items |-> <<13>>],
      Array(<<>>), Array(<<13>>), Array(<<13, 52>>), Array(<<14, 53, 40>>) }

GeometryValues ==
    { AbsentGeometry, NullGeometry, Geometry("Polygon", Array(<<13, 52>>)),
      Geometry("", Array(<<13, 52>>)) }
    \cup { Geometry("Point", c) : c \in CoordinateValues }

PropertiesValues ==
    { AbsentProperties, NullProperties, Properties(EmptyDict),
      Properties([name |-> "N"]),
      Properties([titel |-> "A", title |-> "B"]),
      Properties([name |-> "", title |-> "B"]),
      Properties([name |-> "N", titel |-> "A"]) }

FeatureValues ==
    { Feature(g, Properties([name |-> "N"])) : g \in GeometryValues }
    \cup { Feature(Geometry("Point", Array(<<14, 53, 40>>)), p) : p \in PropertiesValues }

SeqsUpTo(S, n) == UNION { [1..k -> S] : k \in 0..n }

RichFiles ==
    { NotFoundFile, InvalidJsonFile, JsonFile(NullDocument), JsonFile(ArrayDocument),
      JsonFile(FeatureCollection(AbsentFeatures)), JsonFile(FeatureCollection(NullFeatures)) }
    \cup { JsonFile(FeatureCollection(Array(fs))) : fs \in SeqsUpTo(FeatureValues, MaxFeatures) }

-----------------------------------------------------------------------------
(* The script *)

\* "{x:.5f}" of a coordinate: its digits with 5 fractional places, as a count of 1e-5
Fmt5(x) == (x + 50) \div 100

\* st.session_state[key] = value
SetItem(dict, key, value) ==
    [k \in DOMAIN dict \cup {key} |-> IF k = key THEN value ELSE dict[k]]

NoStatus == [center |-> None, radius |-> 0]

Init ==
    /\ pc = "sidebar"
    /\ session_state = EmptyDict
    /\ slider = SLIDER_VALUE
    /\ button = FALSE
    /\ last_clicked = None
    /\ files \in [Paths -> SampleFiles]
    /\ icon_exists \in BOOLEAN
    /\ radius_km = SLIDER_VALUE
    /\ lighthouse_icon = FALSE
    /\ m = [location |-> None, zoom_start |-> 0, children |-> <<>>]
    /\ li = 1
    /\ warnings = <<>>
    /\ out = None
    /\ status = NoStatus
    /\ rerun_requested = FALSE

\* Sidebar with a button that does not assign the centre, the slip C2 has to
\* tell from the code
Sidebar_NoReset ==
    /\ pc = "sidebar"
    /\ radius_km' = slider
    /\ session_state' =
          IF "center" \notin DOMAIN session_state
          THEN SetItem(session_state, "center", DEFAULT_CENTER)
          ELSE session_state
    /\ warnings' = <<>>
    /\ status' = NoStatus
    /\ pc' = "map"
    /\ UNCHANGED <<slider, button, last_clicked, files, icon_exists, lighthouse_icon,
                   m, li, out, rerun_requested>>

\* lines 31-42: slider, reset button, first value of the centre
Sidebar ==
    /\ pc = "sidebar"
    /\ radius_km' = slider
    /\ session_state' =
          IF button THEN SetItem(session_state, "center", DEFAULT_CENTER)
          ELSE IF "center" \notin DOMAIN session_state
               THEN SetItem(session_state, "center", DEFAULT_CENTER)
               ELSE session_state
    /\ warnings' = <<>>
    /\ status' = NoStatus
    /\ pc' = "map"
    /\ UNCHANGED <<slider, button, last_clicked, files, icon_exists, lighthouse_icon,
                   m, li, out, rerun_requested>>

\* lines 86-101: a new map at the centre, the tile layer, the icon
BuildMap ==
    /\ pc = "map"
    /\ m' = [location |-> session_state["center"], zoom_start |-> DEFAULT_ZOOM,
             children |-> <<Child("TileLayer", "OpenStreetMap", None, 0, <<>>)>>]
    /\ lighthouse_icon' = icon_exists
    /\ li' = 1
    /\ pc' = "layers"
    /\ UNCHANGED <<session_state, slider, button, last_clicked, files, icon_exists,
                   radius_km, warnings, out, status, rerun_requested>>

\* lines 104-129: one turn of the loop over LAYER_SPECS
LoadLayer ==
    /\ pc = "layers"
    /\ LET layer_name == LAYER_SPECS[li].layer_name
           path == LAYER_SPECS[li].path
           loaded == load_geojson(path)
           added == IF lighthouse_icon
                    THEN add_geojson_markers(m, loaded.geo, layer_name)
                    ELSE FallbackLayer(m, loaded.geo, layer_name)
           next == IF li < Len(LAYER_SPECS) THEN "layers" ELSE "zone"
       IN  IF loaded.err # ""
           THEN /\ warnings' = Append(warnings, [message |-> loaded.err, path |-> path])
                /\ pc' = next
                /\ li' = IF li < Len(LAYER_SPECS) THEN li + 1 ELSE li
                /\ m' = m
           ELSE IF added.raised
           THEN /\ pc' = "crashed"
                /\ UNCHANGED <<warnings, li, m>>
           ELSE /\ m' = added.map
                /\ pc' = next
                /\ li' = IF li < Len(LAYER_SPECS) THEN li + 1 ELSE li
                /\ warnings' = warnings
    /\ UNCHANGED <<session_state, slider, button, last_clicked, files, icon_exists,
                   radius_km, lighthouse_icon, out, status, rerun_requested>>

\* lines 131-149: the zone circle, the marker at the centre, the layer control
DrawZone ==
    /\ pc = "zone"
    /\ m' = [m EXCEPT !.children = @ \o
                << Child("Circle", "Radiozone", session_state["center"],
                         radius_km * 1000, <<>>),
                   Child("Marker", "Zentrum der Radiozone", session_state["center"],
                         0, <<>>),
                   Child("LayerControl", "", None, 0, <<>>) >>]
    /\ pc' = "interact"
    /\ UNCHANGED <<session_state, slider, button, last_clicked, files, icon_exists,
                   radius_km, lighthouse_icon, li, warnings, out, status,
                   rerun_requested>>

\* lines 156-164: st_folium shows the map and returns the component's value; a
\* click it reports becomes the centre.  out stands for out["last_clicked"], None
\* also when out itself is None.  The script asks for no rerun here or elsewhere.
Interact ==
    /\ pc = "interact"
    /\ out' = last_clicked
    /\ session_state' = IF last_clicked # None
                        THEN SetItem(session_state, "center", last_clicked)
                        ELSE session_state
    /\ rerun_requested' = FALSE
    /\ pc' = "status"
    /\ UNCHANGED <<slider, button, last_clicked, files, icon_exists, radius_km,
                   lighthouse_icon, m, li, warnings, status>>

\* lines 166-172: the status column; the run ends
Status ==
    /\ pc = "status"
    /\ status' = [center |-> <<Fmt5(session_state["center"][1]),
                               Fmt5(session_state["center"][2])>>,
                  radius |-> radius_km]
    /\ pc' = "idle"
    /\ UNCHANGED <<session_state, slider, button, last_clicked, files, icon_exists,
                   radius_km, lighthouse_icon, m, li, warnings, out, rerun_requested>>

(* The user.  Each change of a widget starts a run of the script.  After an    *)
(* uncaught exception the sidebar, drawn before it, is still there; the map is *)
(* not.                                                                        *)

\* the user clicks the map at c: the component's last_clicked becomes c
Click(c) ==
    /\ pc = "idle"
    /\ c # last_clicked
    /\ last_clicked' = c
    /\ button' = FALSE
    /\ pc' = "sidebar"
    /\ UNCHANGED <<session_state, slider, files, icon_exists, radius_km,
                   lighthouse_icon, m, li, warnings, out, status, rerun_requested>>

\* the user moves the slider to r
MoveSlider(r) ==
    /\ pc \in {"idle", "crashed"}
    /\ r # slider
    /\ slider' = r
    /\ button' = FALSE
    /\ pc' = "sidebar"
    /\ UNCHANGED <<session_state, last_clicked, files, icon_exists, radius_km,
                   lighthouse_icon, m, li, warnings, out, status, rerun_requested>>

\* the user presses "Zentrum zurücksetzen"
PressReset ==
    /\ pc \in {"idle", "crashed"}
    /\ button' = TRUE
    /\ pc' = "sidebar"
    /\ UNCHANGED <<session_state, slider, last_clicked, files, icon_exists, radius_km,
                   lighthouse_icon, m, li, warnings, out, status, rerun_requested>>

Run == Sidebar \/ BuildMap \/ LoadLayer \/ DrawZone \/ Interact \/ Status

User ==
    \/ \E c \in Clicks : Click(c)
    \/ \E r \in SliderPositions : MoveSlider(r)
    \/ PressReset

Next == Run \/ User

Spec == Init /\ [][Next]_vars

(* The first run of the script over one data file of any content *)

LoaderFiles ==
    { [q \in Paths |-> IF q = p THEN f ELSE NotFoundFile] : p \in Paths, f \in RichFiles }

LoaderInit ==
    /\ pc = "sidebar"
    /\ session_state = EmptyDict
    /\ slider = SLIDER_VALUE
    /\ button = FALSE
    /\ last_clicked = None
    /\ files \in LoaderFiles
    /\ icon_exists \in BOOLEAN
    /\ radius_km = SLIDER_VALUE
    /\ lighthouse_icon = FALSE
    /\ m = [location |-> None, zoom_start |-> 0, children |-> <<>>]
    /\ li = 1
    /\ warnings = <<>>
    /\ out = None
    /\ status = NoStatus
    /\ rerun_requested = FALSE

LoaderNext == Sidebar \/ BuildMap \/ LoadLayer \/ DrawZone

LoaderSpec == LoaderInit /\ [][LoaderNext]_vars

-----------------------------------------------------------------------------
(* What the claims speak of *)

\* a click rounded to 6 fractional digits, as a count of 1e-6 degree
Round6(click) == <<(click[1] + 5) \div 10, (click[2] + 5) \div 10>>

\* the de-duplication key of the zone state, None when the state holds none
LastObservedClick(state) ==
    IF "lastObservedClick" \in DOMAIN state THEN state["lastObservedClick"] ELSE None

\* the children of a kind on the map
ChildrenOf(map, kind) == SelectSeq(map.children, LAMBDA c : c.kind = kind)

\* the layers of a name on the map
GroupsOf(map, layer_name) ==
    SelectSeq(map.children, LAMBDA c : c.kind = "FeatureGroup" /\ c.name = layer_name)

\* an entry of features that is a Point with at least two coordinates
IsPointEntry(feat) ==
    /\ feat.geometry.kind = "object"
    /\ feat.geometry.type = "Point"
    /\ feat.geometry.coordinates.kind = "array"
    /\ Len(feat.geometry.coordinates.items) >= 2

\* the Point entries of the document at a path, in source order
PointEntries(path) == SelectSeq(files[path].json.features.items, IsPointEntry)

\* the document at a path parses and is an object whose features is a sequence
IsFeatureCollection(path) ==
    /\ files[path].exists
    /\ files[path].parses
    /\ files[path].json.kind = "object"
    /\ files[path].json.features.kind = "array"

\* the loop over LAYER_SPECS is past its i-th turn
LayerDone(i) == pc \in {"zone", "interact", "status", "idle"} \/ (pc \in {"layers", "crashed"} /\ li > i)

\* the first present non-empty value among name, titel, title; "" when there is none
FirstLabel(feat) ==
    LET d == IF feat.properties.kind = "object" THEN feat.properties.dict ELSE EmptyDict
        has(k) == k \in DOMAIN d /\ d[k] # ""
    IN  IF has("name") THEN d["name"]
        ELSE IF has("titel") THEN d["titel"]
        ELSE IF has("title") THEN d["title"]
        ELSE ""

-----------------------------------------------------------------------------
(* Feature loader *)

\* C5: every marker of a layer on the map stands at (latitude, longitude) =
\* (second, first) element of the coordinates of the Point entry it comes from,
\* the k-th marker from the k-th Point entry, with and without the custom icon.
C5_CoordinateOrder ==
    \A i \in 1..Len(LAYER_SPECS) :
        LET groups == GroupsOf(m, LAYER_SPECS[i].layer_name)
            points == PointEntries(LAYER_SPECS[i].path)
        IN  \A g \in 1..Len(groups) :
                /\ Len(groups[g].markers) = Len(points)
                /\ \A k \in 1..Len(points) :
                      LET coordinates == points[k].geometry.coordinates.items
                      IN  groups[g].markers[k].location = <<coordinates[2], coordinates[1]>>

\* C5 witness: without the custom icon, a layer holds a marker at (53, 14), made
\* from coordinates [14, 53, 40], after an entry that was skipped
C5_Witness ==
    /\ ~lighthouse_icon
    /\ \E i \in 1..Len(LAYER_SPECS) :
          LET groups == GroupsOf(m, LAYER_SPECS[i].layer_name)
              items == files[LAYER_SPECS[i].path].json.features.items
          IN  /\ Len(groups) = 1
              /\ Len(items) = 2
              /\ ~IsPointEntry(items[1])
              /\ items[2].geometry.coordinates.items = <<14, 53, 40>>
              /\ Len(groups[1].markers) = 1
              /\ groups[1].markers[1].location = <<53, 14>>

\* C6: for every parsed FeatureCollection the loop neither raises nor aborts, and
\* the layer it adds holds exactly one marker per entry whose geometry type is
\* "Point" and whose coordinates have at least two elements, in source order.
C6_PointFilter ==
    \A i \in 1..Len(LAYER_SPECS) :
        IsFeatureCollection(LAYER_SPECS[i].path) =>
            /\ ~(pc = "crashed" /\ li = i)
            /\ LayerDone(i) =>
                  LET groups == GroupsOf(m, LAYER_SPECS[i].layer_name)
                      points == PointEntries(LAYER_SPECS[i].path)
                  IN  /\ Len(groups) = 1
                      /\ Len(groups[1].markers) = Len(points)
                      /\ \A k \in 1..Len(points) :
                            groups[1].markers[k].location =
                                << points[k].geometry.coordinates.items[2],
                                   points[k].geometry.coordinates.items[1] >>

\* C7: the label of every marker is the first present non-empty value among the
\* properties name, titel, title of its entry, "" when there is none, with and
\* without the custom icon.
C7_LabelFallback ==
    \A i \in 1..Len(LAYER_SPECS) :
        LET groups == GroupsOf(m, LAYER_SPECS[i].layer_name)
            points == PointEntries(LAYER_SPECS[i].path)
        IN  \A g \in 1..Len(groups) :
                \A k \in 1..Len(groups[g].markers) :
                    k <= Len(points) =>
                        groups[g].markers[k].popup = <<LAYER_SPECS[i].layer_name,
                                                       FirstLabel(points[k])>>

-----------------------------------------------------------------------------
(* Zone state and clicks *)

\* C1: the click handler changes the state and signals a re-render exactly when
\* a click is present and its coordinates rounded to 6 digits differ from the
\* state's lastObservedClick; then the centre becomes the click, unrounded, and
\* lastObservedClick the rounded click; otherwise the state stays as it is and no
\* re-render is signalled.
C1_Reconcile ==
    [][ (pc = "interact" /\ pc' = "status") =>
          LET click == last_clicked
              new == click # None /\ Round6(click) # LastObservedClick(session_state)
          IN  IF new
              THEN /\ rerun_requested'
                   /\ session_state'["center"] = click
                   /\ LastObservedClick(session_state') = Round6(click)
              ELSE /\ session_state' = session_state
                   /\ ~rerun_requested' ]_vars

\* C2: the reset leaves the centre at DEFAULT_CENTER and no last observed click in
\* the state (the state holds the centre and nothing else), whatever the state was,
\* and the radius as it was.
C2_Reset ==
    [][ (pc = "sidebar" /\ button /\ pc' = "map") =>
          /\ session_state'["center"] = DEFAULT_CENTER
          /\ DOMAIN session_state' = {"center"}
          /\ LastObservedClick(session_state') = None
          /\ radius_km' = radius_km ]_vars

\* C2 witness: the reset has acted on a state whose centre was a click away from
\* the default, with the radius moved off its first value
C2_Witness ==
    /\ pc = "map"
    /\ button
    /\ out # None
    /\ out # DEFAULT_CENTER
    /\ session_state["center"] = DEFAULT_CENTER
    /\ radius_km # SLIDER_VALUE

\* C3: the pass that first receives a click signals a re-render; a pass without
\* reset that receives the click of the pass before it leaves the state as it is
\* and signals none.
C3_Quiesce ==
    [][ (pc = "interact" /\ pc' = "status" /\ last_clicked # None) =>
          IF last_clicked # out
          THEN rerun_requested'
          ELSE ~button => (session_state' = session_state /\ ~rerun_requested') ]_vars

\* C4: when the script has taken a click and waits for the user, either it has
\* asked for another run or the zone circle on the map is at the click.
C4_CircleFollowsClick ==
    (pc = "idle" /\ out # None) =>
        \/ rerun_requested
        \/ /\ Len(ChildrenOf(m, "Circle")) = 1
           /\ ChildrenOf(m, "Circle")[1].location = out

\* C8: no content of the data files ends a run in an uncaught exception; a layer
\* whose file is missing, is no JSON or is no FeatureCollection object is warned
\* about and left out, every other layer is on the map (empty when features is
\* missing or no sequence), and so is the zone circle.
C8_LayerErrors ==
    /\ pc # "crashed"
    /\ pc = "idle" =>
          /\ Len(ChildrenOf(m, "Circle")) = 1
          /\ \A i \in 1..Len(LAYER_SPECS) :
                LET path == LAYER_SPECS[i].path
                    groups == GroupsOf(m, LAYER_SPECS[i].layer_name)
                    warned == \E w \in 1..Len(warnings) : warnings[w].path = path
                    failed == \/ ~files[path].exists
                              \/ ~files[path].parses
                              \/ files[path].json.kind # "object"
                IN  IF failed
                    THEN warned /\ Len(groups) = 0
                    ELSE /\ ~warned
                         /\ Len(groups) = 1
                         /\ files[path].json.features.kind # "array"
                               => groups[1].markers = <<>>

\* C9: at the end of a run the status line shows the centre at which the zone
\* circle and the centre marker of that run were drawn.
C9_OneCenterPerPass ==
    pc = "idle" =>
        /\ Len(ChildrenOf(m, "Circle")) = 1
        /\ Len(ChildrenOf(m, "Marker")) = 1
        /\ LET drawn == ChildrenOf(m, "Circle")[1].location
           IN  /\ ChildrenOf(m, "Marker")[1].location = drawn
               /\ status.center = <<Fmt5(drawn[1]), Fmt5(drawn[2])>>

\* C10: while the centre is at the default, as a reset leaves it, and the user has
\* not clicked since the component last delivered its click, no step moves the
\* centre away from the default.
C10_ResetHolds ==
    [][ ( /\ "center" \in DOMAIN session_state
          /\ session_state["center"] = DEFAULT_CENTER
          /\ last_clicked = out ) =>
        session_state'["center"] = DEFAULT_CENTER ]_vars

====
